---------------------------- MODULE Spec2Model ----------------------------
(***************************************************************************)
(* A model of import-hacking-fixer: core.process_file and the functions it *)
(* calls (process_imports, find_import_block, rewrite_imports,             *)
(* classify_import, normalize_import, import_normalize).                   *)
(*                                                                         *)
(* Text is modelled at the character level: a Python str is a sequence of  *)
(* one-character strings, a file is the str of its content with "\n"       *)
(* separators.  The str methods the code calls (split, strip, startswith,  *)
(* lower, join, splitlines, comparison) are operators on such sequences.   *)
(***************************************************************************)
EXTENDS Integers, Sequences, FiniteSets, TLC

(***************************************************************************)
(* Python str primitives                                                   *)
(***************************************************************************)

\* ASCII code points of the characters that occur in the modelled files.
Ord ==
  ("\n" :> 10) @@ (" " :> 32) @@ ("\"" :> 34) @@ ("#" :> 35) @@ ("'" :> 39) @@
  ("(" :> 40) @@ (")" :> 41) @@ ("*" :> 42) @@ ("," :> 44) @@ ("." :> 46) @@
  ("0" :> 48) @@ ("1" :> 49) @@ ("2" :> 50) @@ ("3" :> 51) @@ ("4" :> 52) @@
  ("5" :> 53) @@ ("6" :> 54) @@ ("7" :> 55) @@ ("8" :> 56) @@ ("9" :> 57) @@
  (":" :> 58) @@ ("=" :> 61) @@ ("A" :> 65) @@ ("B" :> 66) @@ ("C" :> 67) @@
  ("D" :> 68) @@ ("E" :> 69) @@ ("F" :> 70) @@ ("G" :> 71) @@ ("H" :> 72) @@
  ("I" :> 73) @@ ("J" :> 74) @@ ("K" :> 75) @@ ("L" :> 76) @@ ("M" :> 77) @@
  ("N" :> 78) @@ ("O" :> 79) @@ ("P" :> 80) @@ ("Q" :> 81) @@ ("R" :> 82) @@
  ("S" :> 83) @@ ("T" :> 84) @@ ("U" :> 85) @@ ("V" :> 86) @@ ("W" :> 87) @@
  ("X" :> 88) @@ ("Y" :> 89) @@ ("Z" :> 90) @@ ("_" :> 95) @@ ("a" :> 97) @@
  ("b" :> 98) @@ ("c" :> 99) @@ ("d" :> 100) @@ ("e" :> 101) @@ ("f" :> 102) @@
  ("g" :> 103) @@ ("h" :> 104) @@ ("i" :> 105) @@ ("j" :> 106) @@ ("k" :> 107) @@
  ("l" :> 108) @@ ("m" :> 109) @@ ("n" :> 110) @@ ("o" :> 111) @@ ("p" :> 112) @@
  ("q" :> 113) @@ ("r" :> 114) @@ ("s" :> 115) @@ ("t" :> 116) @@ ("u" :> 117) @@
  ("v" :> 118) @@ ("w" :> 119) @@ ("x" :> 120) @@ ("y" :> 121) @@ ("z" :> 122)

\* str.lower() on one character: A-Z map to a-z, everything else is kept.
LowerChar(c) ==
  IF Ord[c] >= 65 /\ Ord[c] <= 90
    THEN CHOOSE d \in DOMAIN Ord : Ord[d] = Ord[c] + 32
    ELSE c

\* str.lower()
lower(s) == [i \in 1..Len(s) |-> LowerChar(s[i])]

\* a < b for two str: lexicographic by code point, a proper prefix is smaller.
RECURSIVE StrLessFrom(_, _, _)
StrLessFrom(a, b, i) ==
  IF i > Len(a) THEN i <= Len(b)
  ELSE IF i > Len(b) THEN FALSE
  ELSE IF a[i] = b[i] THEN StrLessFrom(a, b, i + 1)
  ELSE Ord[a[i]] < Ord[b[i]]

StrLess(a, b) == StrLessFrom(a, b, 1)

\* s.startswith(p)
startswith(s, p) == Len(s) >= Len(p) /\ SubSeq(s, 1, Len(p)) = p

\* c in s, for a single character c
HasChar(s, c) == \E i \in 1..Len(s) : s[i] = c

\* sub in s, for a str sub
HasSub(s, sub) ==
  \E i \in 1..(Len(s) - Len(sub) + 1) : SubSeq(s, i, i + Len(sub) - 1) = sub

\* Index of the first occurrence of c in s at or after position i, 0 when
\* there is none.
RECURSIVE FindFrom(_, _, _)
FindFrom(s, c, i) ==
  IF i > Len(s) THEN 0
  ELSE IF s[i] = c THEN i
  ELSE FindFrom(s, c, i + 1)

FindChar(s, c) == FindFrom(s, c, 1)

\* The part of s before position k, all of s when k is 0.
Before(s, k) == IF k = 0 THEN s ELSE SubSeq(s, 1, k - 1)

\* s.split(c, 1)[0]
SplitHead(s, c) == Before(s, FindChar(s, c))

\* s.split(c, 1)[1], for s that contains c
SplitRest(s, c) == SubSeq(s, FindChar(s, c) + 1, Len(s))

\* s.split(c): the pieces of s between the occurrences of c
\* The pieces from position i on, k being the next occurrence of c (or 0).
RECURSIVE SplitFrom(_, _, _, _)
SplitFrom(s, c, i, k) ==
  IF k = 0 THEN <<SubSeq(s, i, Len(s))>>
  ELSE <<SubSeq(s, i, k - 1)>> \o SplitFrom(s, c, k + 1, FindFrom(s, c, k + 1))

SplitOn(s, c) == SplitFrom(s, c, 1, FindFrom(s, c, 1))

IsSpace(c) == c = " " \/ c = "\n"

\* Index of the first (step 1) or last (step -1) non-blank character of s
\* from position i on, 0 when there is none.
RECURSIVE NonBlankFrom(_, _, _)
NonBlankFrom(s, i, step) ==
  IF i < 1 \/ i > Len(s) THEN 0
  ELSE IF ~IsSpace(s[i]) THEN i
  ELSE NonBlankFrom(s, i + step, step)

\* s[first..last], the empty str when s is blank (first is 0)
Between(s, first, last) == IF first = 0 THEN <<>> ELSE SubSeq(s, first, last)

\* s.strip()
strip(s) == Between(s, NonBlankFrom(s, 1, 1), NonBlankFrom(s, Len(s), -1))

\* s.split(): the maximal runs of non-whitespace characters
\* acc with the word cur added, if there is one
Flush(acc, cur) == IF cur = <<>> THEN acc ELSE Append(acc, cur)

RECURSIVE SplitWs(_, _, _, _)
SplitWs(s, i, cur, acc) ==
  IF i > Len(s) THEN Flush(acc, cur)
  ELSE SplitWs(s, i + 1,
               IF IsSpace(s[i]) THEN <<>> ELSE Append(cur, s[i]),
               IF IsSpace(s[i]) THEN Flush(acc, cur) ELSE acc)

split(s) == SplitWs(s, 1, <<>>, <<>>)

\* sep.join(parts)
RECURSIVE join(_, _)
join(sep, parts) ==
  IF parts = <<>> THEN <<>>
  ELSE IF Len(parts) = 1 THEN parts[1]
  ELSE parts[1] \o sep \o join(sep, Tail(parts))

NL == <<"\n">>

\* parts without its last element when that is the empty str
DropLastEmpty(parts) ==
  IF parts[Len(parts)] = <<>> THEN SubSeq(parts, 1, Len(parts) - 1) ELSE parts

\* text.splitlines(): the lines of text, a final "\n" opening no further line
splitlines(text) ==
  IF text = <<>> THEN <<>> ELSE DropLastEmpty(SplitOn(text, "\n"))

(***************************************************************************)
(* ast.parse, for the statements that occur in the modelled files          *)
(***************************************************************************)

kw_import == <<"i", "m", "p", "o", "r", "t">>
kw_from == <<"f", "r", "o", "m">>
kw_as == <<"a", "s">>
kw_def == <<"d", "e", "f">>
STAR == <<"*">>
COMMA == <<",">>

IsDigit(c) == Ord[c] >= 48 /\ Ord[c] <= 57

IsIdentChar(c) ==
  \/ IsDigit(c)
  \/ Ord[c] >= 65 /\ Ord[c] <= 90
  \/ Ord[c] >= 97 /\ Ord[c] <= 122
  \/ c = "_"

\* Characters the tokenizer glues into one word: identifier characters and dots.
IsWordChar(c) == IsIdentChar(c) \/ c = "."

\* The tokens of one physical line: words, and every other non-blank
\* character as a token of its own.
RECURSIVE LexFrom(_, _, _, _)
LexFrom(s, i, cur, acc) ==
  IF i > Len(s) THEN Flush(acc, cur)
  ELSE LexFrom(s, i + 1,
               IF IsWordChar(s[i]) THEN Append(cur, s[i]) ELSE <<>>,
               IF IsWordChar(s[i]) THEN acc
               ELSE IF IsSpace(s[i]) THEN Flush(acc, cur)
               ELSE Append(Flush(acc, cur), <<s[i]>>))

Lex(s) == LexFrom(s, 1, <<>>, <<>>)

\* NAME: an identifier that is no keyword
IsIdent(tok) ==
  /\ tok # <<>>
  /\ \A i \in 1..Len(tok) : IsIdentChar(tok[i])
  /\ ~IsDigit(tok[1])
  /\ tok \notin {kw_import, kw_from, kw_as, kw_def}

\* dotted_name: NAME ('.' NAME)*
AllIdent(segs) == \A i \in 1..Len(segs) : IsIdent(segs[i])

IsDottedName(tok) == tok # <<>> /\ AllIdent(SplitOn(tok, "."))

IsNumber(tok) == tok # <<>> /\ \A i \in 1..Len(tok) : IsDigit(tok[i])

\* Number of leading dots of a token: the level of a relative import.
RECURSIVE LeadingDots(_)
LeadingDots(tok) ==
  IF tok # <<>> /\ tok[1] = "." THEN 1 + LeadingDots(Tail(tok)) ELSE 0

\* One alias of an import statement; asname <<>> is Python's None.
Alias(name, asname) == [name |-> name, asname |-> asname]

\* dotted_as_name / import_as_name: NAME ['as' NAME], from its tokens.
\* dotted tells whether the name may hold dots (import) or not (from-import).
AliasOk(grp, dotted) ==
  /\ Len(grp) \in {1, 3}
  /\ IF dotted THEN IsDottedName(grp[1]) ELSE IsIdent(grp[1])
  /\ Len(grp) = 3 => (grp[2] = kw_as /\ IsIdent(grp[3]))

AliasOf(grp) == Alias(grp[1], IF Len(grp) = 3 THEN grp[3] ELSE <<>>)

\* A comma-separated list of aliases.
AllAliasOk(grps, dotted) == \A i \in 1..Len(grps) : AliasOk(grps[i], dotted)

AliasListOk(toks, dotted) ==
  toks # <<>> /\ AllAliasOk(SplitOn(toks, COMMA), dotted)

Aliases(grps) == [i \in 1..Len(grps) |-> AliasOf(grps[i])]

AliasList(toks) == Aliases(SplitOn(toks, COMMA))

\* AST statement nodes.  type is "Import", "ImportFrom", "FunctionDef",
\* "Expr" (a string constant as a statement) or "Other".  depth is the number
\* of function definitions the statement is nested in, first tells whether
\* it is the first statement of its body, value is the str of an Expr.
Node(type, lineno, names, module, level) ==
  [type |-> type, lineno |-> lineno, end_lineno |-> lineno, names |-> names,
   module |-> module, level |-> level, depth |-> 0, first |-> FALSE,
   value |-> <<>>]

ImportNode(lineno, names) == Node("Import", lineno, names, <<>>, 0)

ImportFromNode(lineno, module, names, level) ==
  Node("ImportFrom", lineno, names, module, level)

FunctionDefNode(lineno) == Node("FunctionDef", lineno, <<>>, <<>>, 0)

OtherNode(lineno) == Node("Other", lineno, <<>>, <<>>, 0)

BadNode(lineno) == Node("SyntaxError", lineno, <<>>, <<>>, 0)

\* import_name: 'import' dotted_as_names
ParseImport(toks, lineno) ==
  IF AliasListOk(Tail(toks), TRUE)
    THEN ImportNode(lineno, AliasList(Tail(toks)))
    ELSE BadNode(lineno)

\* import_from: 'from' ('.'* dotted_name | '.'+) 'import'
\*                ('*' | '(' import_as_names [','] ')' | import_as_names)
\* The from-import with the given level, module and tokens after 'import'.
FromTargets(lineno, level, module, rest) ==
  IF ~(IF module = <<>> THEN level > 0 ELSE IsDottedName(module))
    THEN BadNode(lineno)
  ELSE IF rest = <<STAR>>
    THEN ImportFromNode(lineno, module, <<Alias(STAR, <<>>)>>, level)
  ELSE IF AliasListOk(rest, FALSE)
    THEN ImportFromNode(lineno, module, AliasList(rest), level)
  ELSE BadNode(lineno)

\* toks without a final comma
DropLastComma(toks) ==
  IF toks # <<>> /\ toks[Len(toks)] = COMMA
    THEN SubSeq(toks, 1, Len(toks) - 1) ELSE toks

\* The tokens after 'import' without the parentheses around the names.
Unparenthesized(rest) ==
  IF Len(rest) >= 2 /\ rest[1] = <<"(">> /\ rest[Len(rest)] = <<")">>
    THEN DropLastComma(SubSeq(rest, 2, Len(rest) - 1))
    ELSE rest

FromModule(lineno, level, ref, rest) ==
  FromTargets(lineno, level, SubSeq(ref, level + 1, Len(ref)),
              Unparenthesized(rest))

ParseImportFrom(toks, lineno) ==
  IF Len(toks) < 4 \/ toks[3] # kw_import THEN BadNode(lineno)
  ELSE FromModule(lineno, LeadingDots(toks[2]), toks[2],
                  SubSeq(toks, 4, Len(toks)))

\* NAME '=' NUMBER, the one other statement of the modelled files
IsAssignment(toks) ==
  Len(toks) = 3 /\ IsIdent(toks[1]) /\ toks[2] = <<"=">> /\ IsNumber(toks[3])

\* funcdef: 'def' NAME '(' ')' ':', with the body on the following lines
IsFunctionDef(toks) ==
  /\ Len(toks) = 5
  /\ toks[1] = kw_def
  /\ IsIdent(toks[2])
  /\ SubSeq(toks, 3, 5) = <<<<"(">>, <<")">>, <<":">>>>

\* The statement of one logical line (lineno is 1-based).
ParseTokens(toks, lineno) ==
  IF toks[1] = kw_import THEN ParseImport(toks, lineno)
  ELSE IF toks[1] = kw_from THEN ParseImportFrom(toks, lineno)
  ELSE IF IsFunctionDef(toks) THEN FunctionDefNode(lineno)
  ELSE IF IsAssignment(toks) THEN OtherNode(lineno)
  ELSE BadNode(lineno)

ParseStatement(text, lineno) == ParseTokens(Lex(text), lineno)

\* The opening and closing of a triple-quoted string
TQ == <<"\"", "\"", "\"">>

\* Index of the first occurrence of sub in s at or after position i, 0 when
\* there is none.
RECURSIVE FindSubFrom(_, _, _)
FindSubFrom(s, sub, i) ==
  IF i + Len(sub) - 1 > Len(s) THEN 0
  ELSE IF SubSeq(s, i, i + Len(sub) - 1) = sub THEN i
  ELSE FindSubFrom(s, sub, i + 1)

\* s.lstrip()
lstrip(s) == Between(s, NonBlankFrom(s, 1, 1), Len(s))

\* len(s) - len(s.lstrip())
IndentOf(s) == Len(s) - Len(lstrip(s))

\* s.count(c), for a single character c
Count(s, c) == Cardinality({ i \in 1..Len(s) : s[i] = c })

\* A logical line: a statement with its first and last physical line, its
\* indentation and its text without the indentation; kind "string" is a
\* triple-quoted string as a statement, value what is between the quotes.
Logical(kind, indent, text, lineno, end_lineno, value) ==
  [kind |-> kind, indent |-> indent, text |-> text, lineno |-> lineno,
   end_lineno |-> end_lineno, value |-> value]

\* The state of the tokenizer between two physical lines: mode is "none",
\* "joined" (after a backslash), "paren" (inside parentheses) or "string"
\* (inside a triple-quoted string); ls are the logical lines so far.
Tokenizing(mode, indent, text, lineno, ls) ==
  [mode |-> mode, indent |-> indent, text |-> text, lineno |-> lineno,
   ls |-> ls]

\* The logical line that began on st.lineno has the given text up to the end
\* of physical line i: it goes on after a final backslash and inside
\* parentheses, and ends otherwise.
Joined(text, i, st, indent, lineno) ==
  IF text # <<>> /\ text[Len(text)] = "\\"
    THEN Tokenizing("joined", indent, SubSeq(text, 1, Len(text) - 1),
                    lineno, st.ls)
  ELSE IF Count(text, "(") > Count(text, ")")
    THEN Tokenizing("paren", indent, text, lineno, st.ls)
  ELSE Tokenizing("none", 0, <<>>, 0,
                  Append(st.ls, Logical("code", indent, text, lineno, i, <<>>)))

\* A triple-quoted string opened on st.lineno has the given value up to the
\* end of physical line i, closed at position close of rest (0: not closed).
Quoted(value, rest, close, i, st, indent, lineno) ==
  IF close = 0
    THEN Tokenizing("string", indent, value \o rest \o NL, lineno, st.ls)
    ELSE Tokenizing("none", 0, <<>>, 0,
                    Append(st.ls,
                           Logical("string", indent, <<>>, lineno, i,
                                   value \o SubSeq(rest, 1, close - 1))))

\* A physical line that begins a logical line.
Begun(text, i, st, indent) ==
  IF startswith(text, TQ)
    THEN Quoted(<<>>, SubSeq(text, 4, Len(text)),
                FindSubFrom(text, TQ, 4) - (IF FindSubFrom(text, TQ, 4) = 0
                                              THEN 0 ELSE 3),
                i, st, indent, i)
    ELSE Joined(text, i, st, indent, i)

\* The tokenizer on physical line i.
TakeLine(line, i, st) ==
  IF st.mode = "string"
    THEN Quoted(st.text, line, FindSubFrom(line, TQ, 1), i, st, st.indent,
                st.lineno)
  ELSE IF st.mode \in {"joined", "paren"}
    THEN Joined(st.text \o <<" ">> \o line, i, st, st.indent, st.lineno)
  ELSE IF strip(line) = <<>> THEN st
  ELSE Begun(lstrip(line), i, st, IndentOf(line))

RECURSIVE TakeLines(_, _, _)
TakeLines(lines, i, st) ==
  IF i > Len(lines) THEN st
  ELSE TakeLines(lines, i + 1, TakeLine(lines[i], i, st))

\* The logical lines of the file; bad is the line on which a string or a
\* parenthesis was opened or a line joined that the file does not end, or 0.
LogicalLinesOf(st) == [ls |-> st.ls, bad |-> st.lineno]

LogicalLines(lines) ==
  LogicalLinesOf(TakeLines(lines, 1, Tokenizing("none", 0, <<>>, 0, <<>>)))

\* The statement of a logical line, where it stands.
Placed(node, ll, depth, first) ==
  [node EXCEPT !.end_lineno = ll.end_lineno, !.depth = depth,
               !.first = first, !.value = ll.value]

StatementOf(ll) ==
  IF ll.kind = "string"
    THEN Node("Expr", ll.lineno, <<>>, <<>>, 0)
    ELSE ParseStatement(ll.text, ll.lineno)

\* The state of the parser between two logical lines: stack holds the
\* indentations of the open blocks, expect tells that the last statement was
\* a function definition that waits for its body, nodes are the statements so
\* far, bad is the line of an indentation error (0: none).
Blocks(stack, expect, nodes, bad) ==
  [stack |-> stack, expect |-> expect, nodes |-> nodes, bad |-> bad]

\* stack without the blocks that are indented more than indent
RECURSIVE Dedent(_, _)
Dedent(stack, indent) ==
  IF Len(stack) > 1 /\ stack[Len(stack)] > indent
    THEN Dedent(SubSeq(stack, 1, Len(stack) - 1), indent)
    ELSE stack

\* The statement of logical line ll appended in the block of the given stack.
Appended(ll, node, stack, st) ==
  Blocks(stack, node.type = "FunctionDef",
         Append(st.nodes, Placed(node, ll, Len(stack) - 1,
                                 st.expect \/ st.nodes = <<>>)),
         0)

\* The parser on one logical line.
TakeStatement(ll, st) ==
  IF st.bad # 0 THEN st
  ELSE IF st.expect
    THEN IF ll.indent > st.stack[Len(st.stack)]
           THEN Appended(ll, StatementOf(ll), Append(st.stack, ll.indent), st)
           ELSE [st EXCEPT !.bad = ll.lineno]
  ELSE IF Dedent(st.stack, ll.indent)[Len(Dedent(st.stack, ll.indent))]
            # ll.indent
    THEN [st EXCEPT !.bad = ll.lineno]
  ELSE Appended(ll, StatementOf(ll), Dedent(st.stack, ll.indent), st)

RECURSIVE TakeStatements(_, _, _)
TakeStatements(ls, i, st) ==
  IF i > Len(ls) THEN st
  ELSE TakeStatements(ls, i + 1, TakeStatement(ls[i], st))

\* The statements of lines[i..], one after the other.
ParseBody(lines, i) ==
  TakeStatements(LogicalLines(SubSeq(lines, i, Len(lines))).ls, 1,
                 Blocks(<<0>>, FALSE, <<>>, 0)).nodes

\* Index of the first statement of nodes that is a syntax error, 0 if none.
RECURSIVE FirstBad(_, _)
FirstBad(nodes, i) ==
  IF i > Len(nodes) THEN 0
  ELSE IF nodes[i].type = "SyntaxError" THEN i
  ELSE FirstBad(nodes, i + 1)

IsTopLevel(node) == node.depth = 0

\* The parsed module: body holds the statements of the module body, nodes
\* every statement of the file in the order of the source.
Tree(nodes, lineno) ==
  IF lineno = 0
    THEN [ok |-> TRUE, lineno |-> 0, body |-> SelectSeq(nodes, IsTopLevel),
          nodes |-> nodes]
    ELSE [ok |-> FALSE, lineno |-> lineno, body |-> <<>>, nodes |-> <<>>]

\* The line of the syntax error that is reported, for files with one kind of
\* error: that of an unfinished logical line, else that of the first
\* statement that is no statement, else that of the first indentation error,
\* which is the last line of the file for a function definition without a
\* body.
ErrorLine(n, logical, st, bad) ==
  IF logical.bad # 0 THEN logical.bad
  ELSE IF bad # 0 THEN st.nodes[bad].lineno
  ELSE IF st.bad # 0 THEN st.bad
  ELSE IF st.expect THEN n
  ELSE 0

ParsedBody(n, logical, st) ==
  Tree(st.nodes, ErrorLine(n, logical, st, FirstBad(st.nodes, 1)))

ParsedLines(n, logical) ==
  ParsedBody(n, logical,
             TakeStatements(logical.ls, 1, Blocks(<<0>>, FALSE, <<>>, 0)))

ParsedSource(lines) == ParsedLines(Len(lines), LogicalLines(lines))

\* ast.parse(source): ok with the module body, or the line of the first
\* syntax error.
ast_parse(source) == ParsedSource(splitlines(source))

\* The statements of the tree from the given depth on, level by level.
RECURSIVE Levels(_, _)
Levels(nodes, depth) ==
  IF \A i \in 1..Len(nodes) : nodes[i].depth < depth THEN <<>>
  ELSE SelectSeq(nodes, LAMBDA node : node.depth = depth)
         \o Levels(nodes, depth + 1)

\* ast.walk(tree): the nodes of the tree, breadth first.
ast_walk(tree) == Levels(tree.nodes, 0)


(***************************************************************************)
(* core.py: classification, normalisation, process_imports                 *)
(***************************************************************************)

\* A classify_import that looks the root up in project_pkgs first.
classify_project_first(module, stdlib, project_pkgs) ==
  LET root == IF module # <<>> THEN SplitHead(module, ".") ELSE <<>>
  IN  IF root \in project_pkgs THEN "project"
      ELSE IF root \in stdlib THEN "stdlib"
      ELSE "third_party"

\* classify_import(module, stdlib, project_pkgs)
classify_import(module, stdlib, project_pkgs) ==
  LET root == IF module # <<>> THEN SplitHead(module, ".") ELSE <<>>
  IN  IF root \in stdlib THEN "stdlib"
      ELSE IF root \in project_pkgs THEN "project"
      ELSE "third_party"

\* normalize_import(module, names)
normalize_import(module, names) ==
  IF module # <<>>
    THEN kw_from \o <<" ">> \o module \o <<" ">> \o kw_import \o <<" ">>
         \o join(<<",", " ">>, names)
    ELSE kw_import \o <<" ">> \o join(<<",", " ">>, names)

s_future == <<"_", "_", "f", "u", "t", "u", "r", "e", "_", "_">>

\* import_normalize(line)
import_normalize(line) ==
  LET split_line == split(line)
  IN  IF /\ HasSub(line, kw_import)
         /\ startswith(line, kw_from \o <<" ">>)
         /\ ~HasChar(line, ",")
         /\ split_line[3] = kw_import
         /\ split_line[4] # STAR
         /\ split_line[2] # s_future
         /\ \/ Len(split_line) = 4
            \/ Len(split_line) = 6 /\ split_line[5] = kw_as
        THEN kw_import \o <<" ">> \o split_line[2] \o <<".">> \o split_line[4]
        ELSE line

\* The names process_imports keeps as plain imports.
special_cases ==
  { <<"i", "m", "p", "o", "r", "t", "l", "i", "b", ".", "u", "t", "i", "l">>,
    <<"i", "m", "p", "o", "r", "t", "l", "i", "b", ".",
      "m", "e", "t", "a", "d", "a", "t", "a">>,
    <<"t", "y", "p", "i", "n", "g", ".", "D", "i", "c", "t">>,
    <<"t", "y", "p", "i", "n", "g", ".", "L", "i", "s", "t">>,
    <<"t", "y", "p", "i", "n", "g", ".", "S", "e", "t">>,
    <<"t", "y", "p", "i", "n", "g", ".", "T", "u", "p", "l", "e">>,
    <<"t", "y", "p", "i", "n", "g", ".", "O", "p", "t", "i", "o", "n", "a", "l">>,
    <<"t", "y", "p", "i", "n", "g", ".", "I", "t", "e", "r", "a", "b", "l", "e">>,
    <<"t", "y", "p", "i", "n", "g", ".", "I", "t", "e", "r", "a", "t", "o", "r">>,
    <<"c", "o", "l", "l", "e", "c", "t", "i", "o", "n", "s", ".",
      "d", "e", "f", "a", "u", "l", "t", "d", "i", "c", "t">>,
    <<"p", "a", "t", "h", "l", "i", "b", ".", "P", "a", "t", "h">> }

\* Warning messages: the code, the fixed text and the formatted argument.
Msg(code, text, arg) == [code |-> code, text |-> text, arg |-> arg]

H301 == Msg("H301", "one import per line", <<>>)
H302From(root) == Msg("H302", "import each object from '{root}' separately", root)
H302Own == Msg("H302", "import each object on its own line", <<>>)
H303 == Msg("H303", "No wildcard (*) import.", <<>>)
H304(rel) == Msg("H304", "No relative imports. '{rel}' is a relative import", rel)

\* An entry of imports_list: (category, module, name, import_type)
Item(category, module, name, import_type) ==
  [category |-> category, module |-> module, name |-> name,
   import_type |-> import_type]

Found(items, warns) == [items |-> items, warns |-> warns]

\* What two successive parts of the loop appended, in order.
Merge(a, b) == Found(a.items \o b.items, a.warns \o b.warns)

\* The body of "for alias in node.names" for an ast.Import node.
\* "normal import": the name kept as a plain import
PlainItem(name, stdlib, project_pkgs) ==
  Item(classify_import(SplitHead(name, "."), stdlib, project_pkgs),
       <<>>, name, "import")

\* The dotted name root.rest of a stdlib or project root, as a from-import
DottedItem(root, rest, lineno, stdlib, project_pkgs) ==
  Found(<<Item(classify_import(root, stdlib, project_pkgs), root, rest, "from")>>,
        <<<<lineno, H302From(root)>>>>)

ImportAlias(name, lineno, stdlib, project_pkgs) ==
  IF name \in special_cases
    \* appended in the special-case branch and again as a normal import
    THEN Found(<<PlainItem(name, stdlib, project_pkgs),
                 PlainItem(name, stdlib, project_pkgs)>>, <<>>)
  ELSE IF /\ HasChar(name, ".")
          /\ \/ SplitHead(name, ".") \in stdlib
             \/ SplitHead(name, ".") \in project_pkgs
    THEN DottedItem(SplitHead(name, "."), SplitRest(name, "."), lineno,
                    stdlib, project_pkgs)
  ELSE Found(<<PlainItem(name, stdlib, project_pkgs)>>, <<>>)

RECURSIVE ImportAliases(_, _, _, _, _)
ImportAliases(names, i, lineno, stdlib, project_pkgs) ==
  IF i > Len(names) THEN Found(<<>>, <<>>)
  ELSE Merge(ImportAlias(names[i].name, lineno, stdlib, project_pkgs),
             ImportAliases(names, i + 1, lineno, stdlib, project_pkgs))

\* A branch for ast.Import that does not report H301.
VisitImportSilent(node, stdlib, project_pkgs) ==
  ImportAliases(node.names, 1, node.lineno, stdlib, project_pkgs)

\* The branch "isinstance(node, ast.Import)".
VisitImport(node, stdlib, project_pkgs) ==
  Merge(Found(<<>>, IF Len(node.names) > 1
                      THEN <<<<node.lineno, H301>>>> ELSE <<>>),
        ImportAliases(node.names, 1, node.lineno, stdlib, project_pkgs))

\* A branch for ast.ImportFrom that reports a wildcard import and goes on to
\* collect it.
VisitImportFromKeepStar(node, stdlib, project_pkgs) ==
  IF node.level > 0
    THEN Found(<<>>, <<<<node.lineno,
                         H304([i \in 1..node.level |-> "."] \o node.module)>>>>)
  ELSE Found([i \in 1..Len(node.names) |->
                Item(classify_import(node.module, stdlib, project_pkgs),
                     node.module, node.names[i].name, "from")],
             IF \E i \in 1..Len(node.names) : node.names[i].name = STAR
               THEN <<<<node.lineno, H303>>>> ELSE <<>>)

\* A branch for ast.ImportFrom that tests the condition of every code on its
\* own.
VisitImportFromEveryCode(node, stdlib, project_pkgs) ==
  Found(IF \/ node.level > 0
           \/ \E i \in 1..Len(node.names) : node.names[i].name = STAR
          THEN <<>>
          ELSE [i \in 1..Len(node.names) |->
                  Item(classify_import(node.module, stdlib, project_pkgs),
                       node.module, node.names[i].name, "from")],
        (IF Len(node.names) > 1
           THEN <<<<node.lineno, H301>>, <<node.lineno, H302Own>>>>
           ELSE <<>>)
          \o (IF \E i \in 1..Len(node.names) : node.names[i].name = STAR
                THEN <<<<node.lineno, H303>>>> ELSE <<>>)
          \o (IF node.level > 0
                THEN <<<<node.lineno,
                         H304([i \in 1..node.level |-> "."] \o node.module)>>>>
                ELSE <<>>))

\* The branch "isinstance(node, ast.ImportFrom)".
VisitImportFrom(node, stdlib, project_pkgs) ==
  IF node.level > 0
    THEN Found(<<>>, <<<<node.lineno,
                         H304([i \in 1..node.level |-> "."] \o node.module)>>>>)
  ELSE IF \E i \in 1..Len(node.names) : node.names[i].name = STAR
    THEN Found(<<>>, <<<<node.lineno, H303>>>>)
  ELSE Found([i \in 1..Len(node.names) |->
                Item(classify_import(node.module, stdlib, project_pkgs),
                     node.module, node.names[i].name, "from")],
             IF Len(node.names) > 1
               THEN <<<<node.lineno, H301>>, <<node.lineno, H302Own>>>>
               ELSE <<>>)

\* The loop "for node in ast.walk(tree)": imports_list and warnings.
VisitNode(node, stdlib, project_pkgs) ==
  IF node.type = "Import" THEN VisitImport(node, stdlib, project_pkgs)
  ELSE IF node.type = "ImportFrom" THEN VisitImportFrom(node, stdlib, project_pkgs)
  ELSE Found(<<>>, <<>>)

RECURSIVE Visit(_, _, _, _)
Visit(nodes, i, stdlib, project_pkgs) ==
  IF i > Len(nodes) THEN Found(<<>>, <<>>)
  ELSE Merge(VisitNode(nodes[i], stdlib, project_pkgs),
             Visit(nodes, i + 1, stdlib, project_pkgs))

category_order == [stdlib |-> 0, third_party |-> 1, project |-> 2]

\* A sort key that leaves the category out.
SortKeyNoCategory(x) ==
  [cat |-> 0,
   text |-> lower(import_normalize(normalize_import(x.module, <<x.name>>)))]

\* A sort key that compares the text as written, without lower().
SortKeyCaseSensitive(x) ==
  [cat |-> category_order[x.category],
   text |-> import_normalize(normalize_import(x.module, <<x.name>>))]

\* The key of sorted(): (category_order[x[0]], import_normalize(...).lower())
SortKey(x) ==
  [cat |-> category_order[x.category],
   text |-> lower(import_normalize(normalize_import(x.module, <<x.name>>)))]

\* k1 < k2 for two such tuples
KeyLess(k1, k2) ==
  \/ k1.cat < k2.cat
  \/ k1.cat = k2.cat /\ StrLess(k1.text, k2.text)

\* sorted(seq, key=SortKey): the key is computed once per element, the sort
\* is stable (an element goes after the elements it does not precede).
Keyed(x) == [key |-> SortKey(x), item |-> x]

RECURSIVE InsertSorted(_, _)
InsertSorted(sorted, kx) ==
  IF sorted = <<>> THEN <<kx>>
  ELSE IF KeyLess(kx.key, sorted[Len(sorted)].key)
    THEN Append(InsertSorted(SubSeq(sorted, 1, Len(sorted) - 1), kx),
                sorted[Len(sorted)])
    ELSE Append(sorted, kx)

RECURSIVE SortKeyed(_)
SortKeyed(seq) ==
  IF seq = <<>> THEN <<>>
  ELSE InsertSorted(SortKeyed(SubSeq(seq, 1, Len(seq) - 1)), seq[Len(seq)])

Undecorate(keyed) == [i \in 1..Len(keyed) |-> keyed[i].item]

SortedBy(seq) == Undecorate(SortKeyed([i \in 1..Len(seq) |-> Keyed(seq[i])]))

\* "build normalized import line"
ItemLine(key) ==
  IF key.import_type = "from"
    THEN normalize_import(key.module, <<key.name>>)
    ELSE normalize_import(<<>>, <<key.name>>)

\* One iteration of the loop over sorted_list: st holds new_lines, seen_keys
\* and current_category ("" for None).
AddLine(key, st) ==
  IF key \in st.seen_keys THEN st
  ELSE [new_lines |->
          IF st.current_category # "" /\ key.category # st.current_category
            \* "Add blank line between different categories"
            THEN st.new_lines \o <<<<>>, ItemLine(key)>>
            ELSE Append(st.new_lines, ItemLine(key)),
        seen_keys |-> st.seen_keys \cup {key},
        current_category |-> key.category]

RECURSIVE BuildLines(_, _, _)
BuildLines(sorted_list, i, st) ==
  IF i > Len(sorted_list) THEN st.new_lines
  ELSE BuildLines(sorted_list, i + 1, AddLine(sorted_list[i], st))

IsFuture(x) == x.module = s_future
NotFuture(x) == x.module # s_future

\* The result of process_imports, with imports_list and sorted_list kept.
Processed(modified, new_lines, warnings, imports_list, sorted_list) ==
  [modified |-> modified, new_lines |-> new_lines, warnings |-> warnings,
   imports_list |-> imports_list, sorted_list |-> sorted_list]

\* From sorted_list on: new_lines with the final blank line.
Grouped(imports_list, warnings, sorted_list) ==
  Processed(TRUE, Append(BuildLines(sorted_list, 1,
                                [new_lines |-> <<>>, seen_keys |-> {},
                                 current_category |-> ""]),
                     <<>>),
            warnings, imports_list, sorted_list)

\* An arrangement that sorts the __future__ entries with the others.
ArrangedAllSorted(imports_list, warnings) ==
  IF imports_list = <<>>
    THEN Processed(FALSE, <<>>, warnings, imports_list, <<>>)
    ELSE Grouped(imports_list, warnings, SortedBy(imports_list))

\* From imports_list on.
Arranged(imports_list, warnings) ==
  IF imports_list = <<>>
    THEN Processed(FALSE, <<>>, warnings, imports_list, <<>>)
    ELSE Grouped(imports_list, warnings,
                 SelectSeq(imports_list, IsFuture)
                   \o SortedBy(SelectSeq(imports_list, NotFuture)))

Collected(found) == Arranged(found.items, found.warns)

\* process_imports(tree, stdlib, project_pkgs):
\* (modified, new_import_lines, warnings)
process_imports(tree, stdlib, project_pkgs) ==
  Collected(Visit(ast_walk(tree), 1, stdlib, project_pkgs))

\* A rewrite_imports that resumes one line after end.
rewrite_imports_past_end(lines, start, end, new_imports) ==
  SubSeq(lines, 1, start) \o new_imports \o SubSeq(lines, end + 2, Len(lines))

\* rewrite_imports(lines, start, end, new_imports); start, end are 0-based
rewrite_imports(lines, start, end, new_imports) ==
  SubSeq(lines, 1, start) \o new_imports \o SubSeq(lines, end + 1, Len(lines))

\* "Check if this is an import line"
IsImportLine(stripped) ==
  \/ startswith(stripped, kw_import \o <<" ">>)
  \/ startswith(stripped, kw_from \o <<" ">>)

\* How the loop body treats a line: "import", "blank" or "other".
LineKind(stripped) ==
  IF IsImportLine(stripped) THEN "import"
  ELSE IF stripped = <<>> THEN "blank"
  ELSE "other"

\* One iteration of the loop of find_import_block on line index i (0-based):
\* st holds start and end (-1 for None), in_import_block, and done once the
\* loop has hit its break.
ScanLine(kind, i, st) ==
  IF kind = "import"
    THEN [start |-> IF st.start = -1 THEN i ELSE st.start, end |-> i + 1,
          in_import_block |-> TRUE, done |-> FALSE]
  ELSE IF kind = "blank" THEN st
  ELSE [st EXCEPT !.done = st.in_import_block]

RECURSIVE ScanBlock(_, _, _)
ScanBlock(lines, i, st) ==
  IF i >= Len(lines) \/ st.done THEN st
  ELSE ScanBlock(lines, i + 1, ScanLine(LineKind(strip(lines[i + 1])), i, st))

Block(st) ==
  [found |-> st.start # -1 /\ st.end # -1, start |-> st.start, end |-> st.end]

\* find_import_block(lines): found FALSE is None
find_import_block(lines) ==
  Block(ScanBlock(lines, 0, [start |-> -1, end |-> -1,
                             in_import_block |-> FALSE, done |-> FALSE]))

(***************************************************************************)
(* style_rules.py and docstring_rules.py, as process_file calls them       *)
(***************************************************************************)

\* read_line_length_config(root) with no configuration file present
default_length == 79

\* check_line_length(file_path, max_length): (lineno, E501) per long line
check_line_length(lines, max_length) ==
  SelectSeq([i \in 1..Len(lines) |->
                 <<i, Msg("E501", "line too long", lines[i])>>],
              LAMBDA w : Len(w[2].arg) > max_length)

H405 ==
  Msg("H405", "multi-line docstring summary not separated with an empty line",
      <<>>)

\* ast.get_docstring(node, clean=False) of the module or function definition
\* whose body the statement opens: the statement is a str constant.
IsDocstring(node) == node.type = "Expr" /\ node.first

\* "if doc and "\n" in doc" and "if len(doc_lines) > 1 and
\* doc_lines[1].strip() != """
SummaryNotSeparated(doc) ==
  /\ doc # <<>>
  /\ HasChar(doc, "\n")
  /\ Len(splitlines(doc)) > 1
  /\ strip(splitlines(doc)[2]) # <<>>

NeedsBlankLine(node) == IsDocstring(node) /\ SummaryNotSeparated(node.value)

\* new_doc_lines
NewDocLines(indent, doc_lines) ==
  <<indent \o TQ \o doc_lines[1], indent>>
    \o [k \in 1..(Len(doc_lines) - 1) |-> indent \o lstrip(doc_lines[k + 1])]
    \o <<indent \o TQ>>

\* "lines[docstring_line_idx:end_line_idx + 1] = new_doc_lines"
ReplaceDocstring(lines, node, original_line) ==
  SubSeq(lines, 1, node.lineno - 1)
    \o NewDocLines(SubSeq(original_line, 1, IndentOf(original_line)),
                   splitlines(node.value))
    \o SubSeq(lines, node.end_lineno + 1, Len(lines))

\* One iteration of "for docstring_node, doc_lines in reversed(...)".
\* lines never gets shorter, so that lines[docstring_line_idx] exists.
FixDocstring(node, st) ==
  [lines |-> ReplaceDocstring(st.lines, node, st.lines[node.lineno]),
   warnings |-> Append(st.warnings, <<node.lineno, H405>>)]

\* The loop over reversed(docstring_nodes), from its i-th node down.
RECURSIVE FixDocstrings(_, _, _)
FixDocstrings(docstring_nodes, i, st) ==
  IF i = 0 THEN st
  ELSE FixDocstrings(docstring_nodes, i - 1, FixDocstring(docstring_nodes[i], st))

DocstringsFixed(docstring_nodes, st) ==
  [modified |-> docstring_nodes # <<>>, warnings |-> st.warnings,
   new_source |-> join(NL, st.lines)]

DocstringNodes(tree) == SelectSeq(ast_walk(tree), NeedsBlankLine)

FixAll(docstring_nodes, lines) ==
  DocstringsFixed(docstring_nodes,
                  FixDocstrings(docstring_nodes, Len(docstring_nodes),
                                [lines |-> lines, warnings |-> <<>>]))

\* process_docstrings(source): (modified, warnings, new_source), for a source
\* that parses.
process_docstrings(source) ==
  FixAll(DocstringNodes(ast_parse(source)), splitlines(source))

(***************************************************************************)
(* core.process_file                                                       *)
(***************************************************************************)

CouldNotRead == Msg("", "Could not read file: {e}", <<>>)
SyntaxErrorMsg == Msg("", "Syntax error: {e.msg}", <<>>)
CouldNotWrite == Msg("", "Could not write file: {e}", <<>>)
OrderIncorrect == Msg("", "Import order/style is incorrect.", <<>>)
DocstringIssues == Msg("", "Docstring formatting issues detected.", <<>>)

NoImports ==
  [modified |-> FALSE, new_lines |-> <<>>, warnings |-> <<>>,
   imports_list |-> <<>>, sorted_list |-> <<>>]

NoBlock == [found |-> FALSE, start |-> -1, end |-> -1]

\* What one call of process_file returns and leaves behind: the returned
\* (modified, warnings), the content of the file afterwards, the return
\* statement taken (path) and the values of its local variables.
Outcome(modified, warnings, content, path, pi, block, docstring_modified) ==
  [modified |-> modified, warnings |-> warnings, disk |-> content,
   path |-> path, pi |-> pi, block |-> block,
   docstring_modified |-> docstring_modified]

\* "if apply:" up to the write: the lines that are written.
FixedLines(lines, block, pi, ds) ==
  IF ds.modified
    THEN IF block.found /\ pi.modified
           THEN rewrite_imports(splitlines(ds.new_source),
                                block.start, block.end, pi.new_lines)
           ELSE splitlines(ds.new_source)
  ELSE IF block.found /\ pi.modified
    THEN rewrite_imports(lines, block.start, block.end, pi.new_lines)
  ELSE lines

\* "else:" of "if apply:": the warnings of report mode.
Reported(warnings, block, pi, ds) ==
  warnings
    \o (IF (pi.modified \/ ds.modified) /\ block.found /\ pi.modified
          THEN <<<<block.start + 1, OrderIncorrect>>>> ELSE <<>>)
    \o (IF (pi.modified \/ ds.modified) /\ ds.modified
          THEN <<<<0, DocstringIssues>>>> ELSE <<>>)

\* What write_text can do when it fails: fail to open the file and leave it
\* as it was, or fail after the file was opened for writing and leave it
\* truncated.
WriteFaults == {"write_fails", "write_truncates"}

\* A process_file that returns modified=True whether or not the write failed.
RewriteClaimsSuccess(content, io, apply, pi, ds, all_warnings, lines, block, length_warnings) ==
  IF apply
    THEN Outcome(TRUE, all_warnings,
                 IF io \in WriteFaults THEN content
                 ELSE join(NL, FixedLines(lines, block, pi, ds)) \o NL,
                 IF io \in WriteFaults THEN "write_error" ELSE "written",
                 pi, block, ds.modified)
    ELSE Outcome(TRUE, Reported(all_warnings, block, pi, ds), content,
                 "reported", pi, block, ds.modified)

\* A process_file that writes the rewritten lines whatever apply is.
RewriteInReportMode(content, io, apply, pi, ds, all_warnings, lines, block, length_warnings) ==
  Outcome(TRUE,
          IF apply THEN all_warnings
          ELSE Reported(all_warnings, block, pi, ds),
          join(NL, FixedLines(lines, block, pi, ds)) \o NL,
          IF apply THEN "written" ELSE "reported", pi, block, ds.modified)

\* process_file from "lines = source.splitlines()" on.  length_warnings are
\* extended into all_warnings after warnings was copied from it, so that
\* they never reach the returned list.
Rewrite(content, io, apply, pi, ds, all_warnings, lines, block, length_warnings) ==
  IF apply
    THEN IF io \in WriteFaults
           THEN Outcome(FALSE, Append(all_warnings, <<0, CouldNotWrite>>),
                        IF io = "write_truncates" THEN <<>> ELSE content,
                        "write_error", pi, block, ds.modified)
           ELSE Outcome(TRUE, all_warnings,
                        join(NL, FixedLines(lines, block, pi, ds)) \o NL,
                        "written", pi, block, ds.modified)
    ELSE Outcome(TRUE, Reported(all_warnings, block, pi, ds), content,
                 "reported", pi, block, ds.modified)

\* check_line_length opens the file again, outside any try: when that open
\* fails (the file has gone, or does not decode as utf-8) process_file
\* raises and returns nothing (path "raised").
Located(content, io, apply, pi, ds, all_warnings, lines) ==
  IF io = "reopen_fails"
    THEN Outcome(FALSE, <<>>, content, "raised", pi,
                 find_import_block(lines), ds.modified)
    ELSE Rewrite(content, io, apply, pi, ds, all_warnings, lines,
                 find_import_block(lines),
                 check_line_length(lines, default_length))

\* process_file from "Check if any modifications are needed" on.
Combined(content, io, apply, pi, ds, all_warnings) ==
  IF ~pi.modified /\ ~ds.modified /\ all_warnings = <<>>
    THEN Outcome(FALSE, <<>>, content, "clean", pi, NoBlock, ds.modified)
    ELSE Located(content, io, apply, pi, ds, all_warnings, splitlines(content))

Analysed(content, io, apply, pi, ds) ==
  Combined(content, io, apply, pi, ds, pi.warnings \o ds.warnings)

\* process_file from the parsed tree on.
Parsed(content, io, stdlib, project_pkgs, apply, tree) ==
  IF ~tree.ok
    THEN Outcome(FALSE, <<<<tree.lineno, SyntaxErrorMsg>>>>, content,
                 "syntax_error", NoImports, NoBlock, FALSE)
    ELSE Analysed(content, io, apply,
                  process_imports(tree, stdlib, project_pkgs),
                  process_docstrings(content))

\* A process_file that goes on with the content when the read has failed.
process_file_read_unchecked(content, io, stdlib, project_pkgs, apply) ==
  Parsed(content, io, stdlib, project_pkgs, apply, ast_parse(content))

\* process_file(file_path, stdlib, project_pkgs, apply) on a file of the given
\* content; io is what the file system does: "ok", "read_fails",
\* "reopen_fails", "write_fails", "write_truncates".
process_file(content, io, stdlib, project_pkgs, apply) ==
  IF io = "read_fails"
    THEN Outcome(FALSE, <<<<0, CouldNotRead>>>>, content, "read_error",
                 NoImports, NoBlock, FALSE)
    ELSE Parsed(content, io, stdlib, project_pkgs, apply, ast_parse(content))

(***************************************************************************)
(* The files, module sets and runs that are checked                        *)
(***************************************************************************)

n_os == <<"o", "s">>
n_sys == <<"s", "y", "s">>
n_path == <<"p", "a", "t", "h">>
n_Xlib == <<"X", "l", "i", "b">>
n_attr == <<"a", "t", "t", "r">>
n_pkg == <<"p", "k", "g">>
n_division == <<"d", "i", "v", "i", "s", "i", "o", "n">>

Words(ws) == join(<<" ">>, ws)

\* The physical lines the checked files are made of.
InputLines ==
  { Words(<<kw_import, n_os>>),
    Words(<<kw_import, n_sys \o COMMA, n_os>>),
    Words(<<kw_from, n_os, kw_import, n_path>>),
    Words(<<kw_import, n_Xlib, kw_as, <<"x">>>>),
    Words(<<kw_from, n_attr, kw_import, <<"s", ",">>, <<"i", "b">>>>),
    Words(<<kw_import, n_pkg \o <<".", "m", "o", "d">>>>),
    Words(<<kw_from, <<".">>, kw_import, <<"x">>>>),
    Words(<<kw_from, n_os, kw_import, STAR>>),
    Words(<<kw_from, s_future, kw_import, n_division>>),
    Words(<<<<"x">>, <<"=">>, <<"1">>>>),
    <<>> }

\* Longest checked file, in lines.
MaxLines == 3

\* Number of process_file calls on one file.
MaxCalls == 2

\* The files: every sequence of at most MaxLines input lines, written with a
\* final newline.
InputFiles ==
  { IF Len(ls) = 0 THEN <<>> ELSE join(NL, ls) \o NL :
      ls \in UNION { [1..n -> InputLines] : n \in 0..MaxLines } }

n_mod == <<"m", "o", "d">>
n_sub == <<"s", "u", "b">>

\* The lines of the files on which single declarations are checked: dotted
\* names of two and three segments, relative and wildcard from-imports,
\* imports with an alias, a from-import of two names.
DeclLines ==
  { Words(<<kw_import, n_os>>),
    Words(<<kw_import, n_pkg \o <<".">> \o n_mod>>),
    Words(<<kw_import, n_pkg \o <<".">> \o n_mod \o <<".">> \o n_sub>>),
    Words(<<kw_from, <<".">>, kw_import, <<"x", ",">>, <<"y">>>>),
    Words(<<kw_from, <<".">>, kw_import, STAR>>),
    Words(<<kw_from, <<".">> \o n_mod, kw_import, <<"x">>>>),
    Words(<<kw_from, n_os, kw_import, STAR>>),
    Words(<<kw_from, n_attr, kw_import, <<"s">>, kw_as, <<"t">>>>),
    Words(<<kw_from, n_attr, kw_import, <<"s", ",">>, <<"i", "b">>>>),
    Words(<<kw_import, n_Xlib, kw_as, <<"x">>>>) }

\* Longest such file, in lines.
MaxDeclLines == 2

DeclFiles ==
  { IF Len(ls) = 0 THEN <<>> ELSE join(NL, ls) \o NL :
      ls \in UNION { [1..n -> DeclLines] : n \in 0..MaxDeclLines } }

\* The lines of the files processed under I/O failures; "import" alone is a
\* syntax error.
FaultLines ==
  { Words(<<kw_import, n_os>>),
    Words(<<kw_import, n_sys \o COMMA, n_os>>),
    Words(<<kw_from, <<".">>, kw_import, <<"x">>>>),
    Words(<<<<"x">>, <<"=">>, <<"1">>>>),
    kw_import,
    <<>> }

\* Longest such file, in lines.
MaxFaultLines == 2

FaultFiles ==
  { IF Len(ls) = 0 THEN <<>> ELSE join(NL, ls) \o NL :
      ls \in UNION { [1..n -> FaultLines] : n \in 0..MaxFaultLines } }

\* The statements of the files on which nested imports, docstrings and
\* statements of several lines are checked, each as its physical lines: a
\* function with an import of two modules in its body, a docstring whose
\* summary is followed by text, a docstring of one line, a from-import in
\* parentheses over three lines, an import continued after a backslash.
n_Doc == <<"D", "o", "c">>
n_more == <<"m", "o", "r", "e">>
Indented(text) == <<" ", " ", " ", " ">> \o text

LayoutChunks ==
  { <<Words(<<kw_import, n_os>>)>>,
    <<Words(<<kw_import, n_sys \o COMMA, n_os>>)>>,
    <<Words(<<<<"x">>, <<"=">>, <<"1">>>>)>>,
    <<Words(<<kw_def, <<"f", "(", ")", ":">>>>),
      Indented(Words(<<kw_import, n_sys \o COMMA, n_os>>))>>,
    <<TQ \o n_Doc, n_more, TQ>>,
    <<TQ \o n_Doc \o TQ>>,
    <<Words(<<kw_from, n_os, kw_import, <<"(">>>>),
      Indented(n_path \o COMMA),
      Indented(<<"s", "e", "p", ")">>)>>,
    <<Words(<<kw_import, n_os \o COMMA, <<"\\">>>>),
      Indented(n_sys)>> }

\* Longest such file, in statements.
MaxChunks == 2

\* The lines of the chunks, one chunk after the other.
RECURSIVE Flatten(_)
Flatten(chunks) ==
  IF chunks = <<>> THEN <<>> ELSE Head(chunks) \o Flatten(Tail(chunks))

LayoutFiles ==
  { IF Len(cs) = 0 THEN <<>> ELSE join(NL, Flatten(cs)) \o NL :
      cs \in UNION { [1..n -> LayoutChunks] : n \in 0..MaxChunks } }

\* The stdlib and project package sets handed to process_file: no project
\* package; a stdlib set without __future__; a project package named as a
\* stdlib module.
ModuleSets ==
  { [stdlib |-> {s_future, n_os, n_sys}, project_pkgs |-> {}],
    [stdlib |-> {n_os, n_sys}, project_pkgs |-> {n_pkg}],
    [stdlib |-> {s_future, n_os, n_sys}, project_pkgs |-> {n_pkg, n_os}] }

VARIABLES
  disk,          \* the content of the file
  stdlib,        \* the stdlib argument of every call
  project_pkgs,  \* the project_pkgs argument of every call
  calls,         \* number of process_file calls made
  apply,         \* the apply argument of the last call
  fault,         \* what the file system did during the last call
  before,        \* the content of the file when the last call started
  was_fixed,     \* whether that content was left by a call with apply=True
  out,           \* the Outcome of the last call
  run            \* the run of a check or fix command over a path

vars ==
  <<disk, stdlib, project_pkgs, calls, apply, fault, before, was_fixed, out,
    run>>

\* No command is running: process_file is called on its own.
NoRun ==
  [pc |-> "none", fs |-> <<>>, path |-> <<>>, project_packages |-> <<>>,
   files |-> {}, pending |-> {}, exit_code |-> 0, total_warnings |-> 0,
   results |-> {}]

NotCalled ==
  Outcome(FALSE, <<>>, <<>>, "none", NoImports, NoBlock, FALSE)

\* The state before the first call on one of the given files.
InitOn(files) ==
  /\ disk \in files
  /\ \E m \in ModuleSets :
       /\ stdlib = m.stdlib
       /\ project_pkgs = m.project_pkgs
  /\ calls = 0
  /\ apply = FALSE
  /\ fault = "ok"
  /\ before = disk
  /\ was_fixed = FALSE
  /\ out = NotCalled
  /\ run = NoRun

Init == InitOn(InputFiles)

\* One call process_file(path, stdlib, project_pkgs, apply=a).
ProcessFile(a, io) ==
  /\ calls < MaxCalls
  /\ \E r \in {process_file(disk, io, stdlib, project_pkgs, a)} :
       /\ out' = [r EXCEPT !.disk = <<>>]
       /\ disk' = r.disk
  /\ calls' = calls + 1
  /\ apply' = a
  /\ fault' = io
  /\ before' = disk
  /\ was_fixed' = (calls > 0 /\ apply)
  /\ UNCHANGED <<stdlib, project_pkgs, run>>

Check == ProcessFile(FALSE, "ok")

Fix == ProcessFile(TRUE, "ok")

Next == Check \/ Fix

Spec == Init /\ [][Next]_vars

\* The same commands on the files of single declarations.
InitDecl == InitOn(DeclFiles)

SpecDecl == InitDecl /\ [][Next]_vars

\* Calls during which the file system fails: the read, the write, or the
\* second open of the file.
ReadFailure == \E a \in BOOLEAN : ProcessFile(a, "read_fails")

ReopenFailure == \E a \in BOOLEAN : ProcessFile(a, "reopen_fails")

WriteFailure == \E io \in WriteFaults : ProcessFile(TRUE, io)

InitFault == InitOn(FaultFiles)

NextFault == Check \/ Fix \/ ReadFailure \/ ReopenFailure \/ WriteFailure

SpecFault == InitFault /\ [][NextFault]_vars

\* The same commands on the files of nested imports, docstrings and
\* statements of several lines.
InitLayout == InitOn(LayoutFiles)

SpecLayout == InitLayout /\ [][Next]_vars

(***************************************************************************)
(* The check and fix commands over a path                                  *)
(***************************************************************************)

n_t == <<"t">>
n_d == <<"d">>
n_a_py == <<"a", ".", "p", "y">>
n_c_py == <<"c", ".", "p", "y">>
n_e_py == <<"e", ".", "p", "y">>
n_b_txt == <<"b", ".", "t", "x", "t">>
n_init_py ==
  <<"_", "_", "i", "n", "i", "t", "_", "_", ".", "p", "y">>
suffix_py == <<".", "p", "y">>

\* s.endswith(p)
endswith(s, p) ==
  Len(s) >= Len(p) /\ SubSeq(s, Len(s) - Len(p) + 1, Len(s)) = p

\* max(a, b)
max(a, b) == IF a >= b THEN a ELSE b

Directory == [kind |-> "dir", content |-> <<>>]
RegularFile(content) == [kind |-> "file", content |-> content]

\* The contents of the Python files of the tree: no import, one import, two
\* modules on one line, a syntax error.
CliContents ==
  { Words(<<<<"x">>, <<"=">>, <<"1">>>>) \o NL,
    Words(<<kw_import, n_os>>) \o NL,
    Words(<<kw_import, n_sys \o COMMA, n_os>>) \o NL,
    kw_import \o NL }

\* The directory t: paths are sequences of names.
\*   t/a.py  t/b.txt  t/d/__init__.py  t/d/c.py  t/e.py/
FileTree(a, c) ==
  (<<n_t>> :> Directory)
    @@ (<<n_t, n_a_py>> :> RegularFile(a))
    @@ (<<n_t, n_b_txt>> :> RegularFile(<<>>))
    @@ (<<n_t, n_d>> :> Directory)
    @@ (<<n_t, n_d, n_init_py>> :> RegularFile(<<>>))
    @@ (<<n_t, n_d, n_c_py>> :> RegularFile(c))
    @@ (<<n_t, n_e_py>> :> Directory)

FileTrees == { FileTree(a, c) : a, c \in CliContents }

\* The path arguments of the commands: a directory, a single file, a package.
CliPaths == { <<n_t>>, <<n_t, n_a_py>>, <<n_t, n_d>> }

\* The values of --project-packages: the default, and " pkg,".
ProjectPackagesOptions == { <<>>, <<" ">> \o n_pkg \o <<" ", ",">> }

\* path.is_dir()
is_dir(fs, path) == path \in DOMAIN fs /\ fs[path].kind = "dir"

\* p lies under root, at any depth.
IsUnder(p, root) == Len(p) > Len(root) /\ SubSeq(p, 1, Len(root)) = root

\* item is an entry of the directory root.
IsEntryOf(item, root) == Len(item) = Len(root) + 1 /\ IsUnder(item, root)

\* root_path.rglob('*.py'): the entries of any kind under a directory whose
\* name ends with ".py"; nothing when root_path is not a directory.
rglob_py(fs, root) ==
  IF is_dir(fs, root)
    THEN { p \in DOMAIN fs : IsUnder(p, root) /\ endswith(p[Len(p)], suffix_py) }
    ELSE {}

\* iter_python_files(root), called without an ignore list.
iter_python_files(fs, root) == rglob_py(fs, root)

\* find_project_packages(root)
find_project_packages(fs, root) ==
  { item[Len(item)] :
      item \in { p \in DOMAIN fs :
                   /\ IsEntryOf(p, root)
                   /\ is_dir(fs, p)
                   /\ Append(p, n_init_py) \in DOMAIN fs } }

\* get_stdlib_modules()
get_stdlib_modules == {s_future, n_os, n_sys}

\* set(filter(None, (p.strip() for p in project_packages.split(","))))
GivenPackages(project_packages) ==
  LET pieces == SplitOn(project_packages, ",")
  IN  { strip(pieces[i]) : i \in 1..Len(pieces) } \ {<<>>}

\* The project_pkgs of a run.
ProjectPkgsOf(fs, path, given) ==
  IF given = {} /\ is_dir(fs, path) THEN find_project_packages(fs, path)
  ELSE given

\* A command has been invoked and _handle_files has not started.
Invoked(fs, path, project_packages) ==
  [pc |-> "called", fs |-> fs, path |-> path,
   project_packages |-> project_packages, files |-> {}, pending |-> {},
   exit_code |-> 0, total_warnings |-> 0, results |-> {}]

InitCli ==
  /\ disk = <<>>
  /\ stdlib = {}
  /\ project_pkgs = {}
  /\ calls = 0
  /\ apply = FALSE
  /\ fault = "ok"
  /\ before = <<>>
  /\ was_fixed = FALSE
  /\ out = NotCalled
  /\ run \in { Invoked(fs, path, opt) :
                 fs \in FileTrees, path \in CliPaths,
                 opt \in ProjectPackagesOptions }

\* _handle_files(path, project_packages, apply_changes) up to its for loop.
handle_files(apply_changes) ==
  /\ run.pc = "called"
  /\ apply' = apply_changes
  /\ stdlib' = get_stdlib_modules
  /\ project_pkgs' =
       ProjectPkgsOf(run.fs, run.path, GivenPackages(run.project_packages))
  /\ run' = [run EXCEPT !.pc = "loop",
                        !.files = iter_python_files(run.fs, run.path),
                        !.pending = iter_python_files(run.fs, run.path)]
  /\ UNCHANGED <<disk, calls, fault, before, was_fixed, out>>

CheckCommand == handle_files(FALSE)

FixCommand == handle_files(TRUE)

\* What the file system can do while process_file works on an entry: a
\* directory cannot be read as a file.
FaultsOn(entry, apply_changes) ==
  IF entry.kind = "dir" THEN {"read_fails"}
  ELSE {"ok", "read_fails", "reopen_fails"}
         \cup (IF apply_changes THEN WriteFaults ELSE {})

\* The body of the for loop for a process_file that returned or raised r.
Aggregated(file_path, r) ==
  [run EXCEPT
     !.fs = [@ EXCEPT ![file_path].content = r.disk],
     !.pending = @ \ {file_path},
     !.exit_code = IF r.path = "raised" THEN max(@, 2)
                   ELSE IF r.modified THEN max(@, 1)
                   ELSE @,
     !.total_warnings = IF r.path = "raised" THEN @ ELSE @ + Len(r.warnings),
     !.results = @ \cup {[file |-> file_path, path |-> r.path,
                          modified |-> r.modified]}]

\* One iteration of "for file_path in core.iter_python_files(str(path))";
\* rglob yields the entries in the order of the file system.
ProcessNextFile ==
  /\ run.pc = "loop"
  /\ \E file_path \in run.pending :
       \E io \in FaultsOn(run.fs[file_path], apply) :
         \E r \in {process_file(run.fs[file_path].content, io, stdlib,
                                project_pkgs, apply)} :
           /\ out' = [r EXCEPT !.disk = <<>>]
           /\ disk' = r.disk
           /\ before' = run.fs[file_path].content
           /\ fault' = io
           /\ run' = Aggregated(file_path, r)
  /\ calls' = calls + 1
  /\ UNCHANGED <<stdlib, project_pkgs, apply, was_fixed>>

\* "return exit_code", after the last file.
ReturnExitCode ==
  /\ run.pc = "loop"
  /\ run.pending = {}
  /\ run' = [run EXCEPT !.pc = "returned"]
  /\ UNCHANGED <<disk, stdlib, project_pkgs, calls, apply, fault, before,
                 was_fixed, out>>

NextCli == CheckCommand \/ FixCommand \/ ProcessNextFile \/ ReturnExitCode

SpecCli == InitCli /\ [][NextCli]_vars

(***************************************************************************)
(* Properties of process_file and process_imports                          *)
(***************************************************************************)

\* The lines of the file when the last call started, and when it returned.
BeforeLines == splitlines(before)
AfterLines == splitlines(disk)

\* The last call was made with apply=True and wrote the file.
Written == calls > 0 /\ out.path = "written"

\* The last call wrote the file with its import block replaced.
Rewritten == Written /\ out.block.found /\ out.pi.modified

\* The span [start, end) that find_import_block located in the file, and the
\* block process_imports built.
OldBlock == SubSeq(BeforeLines, out.block.start + 1, out.block.end)
NewBlock == out.pi.new_lines

\* NewBlock without its final blank line.
NewImports == SubSeq(NewBlock, 1, Len(NewBlock) - 1)

\* C1 (as stated): whenever process_file runs with apply=True on a file that
\* a run with apply=True has left, the content of the file does not change.
C1_FixTwiceSameAsOnce ==
  (calls > 0 /\ apply /\ was_fixed) => disk = before

\* The located block already consists of exactly the lines process_imports
\* emits: one import per line, grouped, sorted, without duplicates.
AlreadyCorrect ==
  calls > 0 /\ out.block.found /\ out.pi.modified /\ OldBlock = NewImports

\* C2 (as stated): process_file returns modified=False, in either mode, for a
\* file whose import block is already one-per-line, grouped, sorted and
\* without duplicates.
C2_CorrectFileNotModified == AlreadyCorrect => ~out.modified

\* An import statement that is neither relative nor a wildcard import.
IsAbsolute(node) ==
  \/ node.type = "Import"
  \/ /\ node.type = "ImportFrom"
     /\ node.level = 0
     /\ \A i \in 1..Len(node.names) : node.names[i].name # STAR

\* What a statement binds for one of its aliases: the dotted path of what is
\* imported ("import a.b" and "from a import b" count as the same path) and
\* the alias.
Binding(node, alias) ==
  [path |-> IF node.type = "ImportFrom"
              THEN node.module \o <<".">> \o alias.name ELSE alias.name,
   asname |-> alias.asname]

Bindings(body) ==
  UNION { { Binding(body[k], body[k].names[i]) : i \in 1..Len(body[k].names) } :
            k \in { n \in 1..Len(body) : IsAbsolute(body[n]) } }

\* C3 (as stated): the absolute, non-wildcard imports of the block that is
\* replaced and of the block that replaces it bind the same things under the
\* same aliases.
C3_BindingsPreserved ==
  Rewritten => Bindings(ParseBody(OldBlock, 1)) = Bindings(ParseBody(NewBlock, 1))

\* The category of an emitted line: that of the module it imports (from).
LineModule(node) ==
  IF node.type = "ImportFrom" THEN node.module ELSE node.names[1].name

LineCategory(line) ==
  classify_import(LineModule(ParseStatement(line, 0)), stdlib, project_pkgs)

IsFutureLine(line) == startswith(line, Words(<<kw_from, s_future, kw_import>>))

IsImportText(line) == line # <<>>
IsOrderedText(line) == line # <<>> /\ ~IsFutureLine(line)

\* The import lines of the new block, and those that are no __future__ import.
EmittedLines == SelectSeq(NewBlock, IsImportText)
OrderedLines == SelectSeq(NewBlock, IsOrderedText)

CategoriesAscend(ls) ==
  \A i, j \in 1..Len(ls) :
    i < j => category_order[LineCategory(ls[i])]
               <= category_order[LineCategory(ls[j])]

\* C4 (amended): in every block process_imports builds, among the lines
\* that are no __future__ import, every stdlib line precedes every
\* third-party line and every third-party line precedes every project line.
C4_CategoryOrder == calls > 0 => CategoriesAscend(OrderedLines)

\* C4 (as stated): the same of all lines of the block, __future__ imports
\* included.
C4_AllLinesCategoryOrder == calls > 0 => CategoriesAscend(EmittedLines)

\* A block has been built that holds lines of all three categories.
C4_ThreeCategories ==
  /\ calls > 0
  /\ { LineCategory(OrderedLines[i]) : i \in 1..Len(OrderedLines) }
       = {"stdlib", "third_party", "project"}

\* The text process_imports sorts a line by: its import_normalize
\* projection ("from a import b" as "import a.b"), lowercased.
Projection(line) == lower(import_normalize(line))

\* The projections of the lines, and their lowercased texts.
Projections(ls) == [i \in 1..Len(ls) |-> Projection(ls[i])]
LowerTexts(ls) == [i \in 1..Len(ls) |-> lower(ls[i])]

\* The lines of one category do not descend under the texts given for them.
Alphabetical(ls, texts) ==
  \A i, j \in 1..Len(ls) :
    (i < j /\ LineCategory(ls[i]) = LineCategory(ls[j]))
      => ~StrLess(texts[j], texts[i])

\* C5 (amended): in every block process_imports builds, the lines of one
\* category that are no __future__ import are non-decreasing under
\* case-insensitive comparison of their import_normalize projections.
C5_SortedByProjection ==
  calls > 0 => Alphabetical(OrderedLines, Projections(OrderedLines))

\* C5 (as stated): the lines of one category are non-decreasing under
\* case-insensitive comparison of the emitted lines themselves.
C5_SortedByLineText ==
  calls > 0 => Alphabetical(EmittedLines, LowerTexts(EmittedLines))

\* A block has been built in which two lines of one category stand in the
\* order of their projections and against the order of their texts.
C5_ProjectionDecides ==
  /\ calls > 0
  /\ \E i, j \in 1..Len(OrderedLines) :
       /\ i < j
       /\ LineCategory(OrderedLines[i]) = LineCategory(OrderedLines[j])
       /\ StrLess(Projection(OrderedLines[i]), Projection(OrderedLines[j]))
       /\ StrLess(lower(OrderedLines[j]), lower(OrderedLines[i]))

\* Index in AfterLines of the final blank line of the block that was written.
BlockLast == out.block.start + Len(NewBlock)

\* C6 (as stated): in the file written by process_file with apply=True, the
\* groups of the block are separated by single blank lines and the block is
\* followed by exactly one blank line before the next line of code.
C6_OneBlankLineAfterBlock ==
  Rewritten =>
    /\ \A k \in 1..(Len(NewImports) - 1) :
         NewImports[k] = <<>> => NewImports[k + 1] # <<>>
    /\ (\E k \in (BlockLast + 1)..Len(AfterLines) : AfterLines[k] # <<>>)
         => AfterLines[BlockLast + 1] # <<>>

\* C7: when process_file writes a file that needs no docstring change, the
\* lines before the located block and the lines from its end on are written
\* unchanged and in order, and only the span [start, end) is replaced, by
\* the new block; a file whose block is not replaced is written line by
\* line as it was.
C7_Frame ==
  (Written /\ ~out.docstring_modified) =>
    IF out.block.found /\ out.pi.modified
      THEN /\ Len(AfterLines) = Len(BeforeLines) + Len(NewBlock) - Len(OldBlock)
           /\ SubSeq(AfterLines, 1, out.block.start)
                = SubSeq(BeforeLines, 1, out.block.start)
           /\ SubSeq(AfterLines, out.block.start + 1, BlockLast) = NewBlock
           /\ SubSeq(AfterLines, BlockLast + 1, Len(AfterLines))
                = SubSeq(BeforeLines, out.block.end + 1, Len(BeforeLines))
      ELSE AfterLines = BeforeLines

\* A file has been written whose replaced block had code before and after it.
C7_BlockInsideCode ==
  /\ Rewritten
  /\ ~out.docstring_modified
  /\ out.block.start > 0
  /\ out.block.end < Len(BeforeLines)
  /\ BeforeLines[out.block.end + 1] # <<>>

\* C8 (as stated): process_file returns modified=True only if the new
\* import block differs from the located block.
C8_ModifiedOnlyIfBlockDiffers ==
  (calls > 0 /\ out.modified) =>
    (out.block.found /\ out.pi.modified /\ NewBlock # OldBlock)

\* Module names as classify_import is given them.
ModuleNames ==
  { n_os, n_sys, n_pkg, n_Xlib, n_attr, s_future,
    n_os \o <<".">> \o n_path, n_pkg \o <<".">> \o n_os,
    n_Xlib \o <<".">> \o n_sys, <<>> }

Root(module) == SplitHead(module, ".")

\* The first dotted segment of what an entry of imports_list was classified by.
ItemRoot(x) == IF x.import_type = "from" THEN Root(x.module) ELSE Root(x.name)

\* The name is classified stdlib when its root is in the stdlib set, else
\* project when it is in the project set, else third_party.
StdlibFirst(root, category) ==
  /\ root \in stdlib => category = "stdlib"
  /\ (root \notin stdlib /\ root \in project_pkgs) => category = "project"
  /\ (root \notin stdlib /\ root \notin project_pkgs) => category = "third_party"

\* C9 (amended): classify_import returns stdlib for every module name whose
\* first dotted segment is in the stdlib set, also when it is in the
\* project-package set as well; project for one only in the project-package
\* set; third_party for one in neither set.  So is every import that
\* process_imports collects classified.
C9_StdlibPrecedence ==
  /\ \A m \in ModuleNames :
       StdlibFirst(Root(m), classify_import(m, stdlib, project_pkgs))
  /\ \A i \in 1..Len(out.pi.imports_list) :
       StdlibFirst(ItemRoot(out.pi.imports_list[i]),
                   out.pi.imports_list[i].category)

\* C9 (as stated): a module name whose first dotted segment is in both sets
\* is classified project, one in neither set third_party.
C9_ProjectPrecedence ==
  \A m \in ModuleNames :
    /\ (Root(m) \in project_pkgs /\ Root(m) \in stdlib)
         => classify_import(m, stdlib, project_pkgs) = "project"
    /\ (Root(m) \notin project_pkgs /\ Root(m) \notin stdlib)
         => classify_import(m, stdlib, project_pkgs) = "third_party"

\* process_imports has classified an import whose root is in both sets, and
\* one whose root is in neither.
C9_ClassifiedShadowed ==
  /\ \E i \in 1..Len(out.pi.imports_list) :
       /\ ItemRoot(out.pi.imports_list[i]) \in stdlib \cap project_pkgs
       /\ out.pi.imports_list[i].category = "stdlib"
  /\ \E i \in 1..Len(out.pi.imports_list) :
       /\ ItemRoot(out.pi.imports_list[i]) \notin stdlib \cup project_pkgs
       /\ out.pi.imports_list[i].category = "third_party"

\* Number of H301 warnings of process_imports that carry the line number.
H301Count(lineno) ==
  Cardinality({ k \in 1..Len(out.pi.warnings) :
                  out.pi.warnings[k] = <<lineno, H301>> })

\* The lines that import one name of a statement on a line of its own.
LinesFor(node, name) ==
  IF node.type = "ImportFrom" THEN { normalize_import(node.module, <<name>>) }
  ELSE { normalize_import(<<>>, <<name>>),
         normalize_import(SplitHead(name, "."), <<SplitRest(name, ".")>>) }

\* The statement is reported once if it names several, not at all if it
\* names one, and each of its names has a line of its own in the new block.
SplitInBlock(node) ==
  /\ H301Count(node.lineno) = IF Len(node.names) > 1 THEN 1 ELSE 0
  /\ \A i \in 1..Len(node.names) :
       \E l \in 1..Len(NewBlock) :
         NewBlock[l] \in LinesFor(node, node.names[i].name)

AllSplitInBlock(body) ==
  \A k \in 1..Len(body) : IsAbsolute(body[k]) => SplitInBlock(body[k])

OneNamePerLine(ls) ==
  \A l \in 1..Len(ls) : Len(ParseStatement(ls[l], l).names) = 1

\* C10: for every absolute, non-wildcard import statement of the file,
\* process_imports emits exactly one H301 warning with the statement's line
\* number if it names more than one module or name and none if it names one,
\* and the new block holds a line of its own for each of the names; no line
\* of the new block imports more than one name.
C10_H301OnePerLine ==
  calls > 0 =>
    /\ AllSplitInBlock(ast_parse(before).body)
    /\ OneNamePerLine(EmittedLines)

\* The statements hold an import and a from-import of several names, each
\* reported once, and an import of one name, not reported.
SplitAndSingle(body) ==
  \E j, k, n \in 1..Len(body) :
    /\ body[j].type = "Import" /\ Len(body[j].names) > 1
    /\ body[k].type = "ImportFrom" /\ IsAbsolute(body[k])
    /\ Len(body[k].names) > 1
    /\ IsAbsolute(body[n]) /\ Len(body[n].names) = 1
    /\ H301Count(body[j].lineno) = 1
    /\ H301Count(body[k].lineno) = 1
    /\ H301Count(body[n].lineno) = 0

\* process_imports has reported H301 for an import statement and for a
\* from-import statement of a file that also holds a single-name import, and
\* has built a block of five lines from them.
C10_TwoSplitStatements ==
  /\ calls > 0
  /\ Len(NewBlock) >= 5
  /\ SplitAndSingle(ast_parse(before).body)

\* A from-import that is relative or a wildcard import.
IsExcluded(node) == node.type = "ImportFrom" /\ ~IsAbsolute(node)

\* The warnings of process_imports that carry the line number.
WarningsAt(lineno) ==
  SelectSeq(out.pi.warnings, LAMBDA w : w[1] = lineno)

\* The one warning such a statement is to get.
ExcludedWarning(node) ==
  IF node.level > 0
    THEN <<node.lineno, H304([i \in 1..node.level |-> "."] \o node.module)>>
    ELSE <<node.lineno, H303>>

\* The entry of imports_list was appended for the alias of the statement.
ItemOf(x, node, name) ==
  IF node.type = "ImportFrom" THEN x.module = node.module /\ x.name = name
  ELSE \/ x.module = <<>> /\ x.name = name
       \/ /\ HasChar(name, ".")
          /\ x.module = SplitHead(name, ".")
          /\ x.name = SplitRest(name, ".")

\* Every entry of imports_list was appended for an absolute statement.
AllFromAbsolute(body) ==
  \A n \in 1..Len(out.pi.imports_list) :
    \E k \in 1..Len(body) :
      /\ IsAbsolute(body[k])
      /\ \E i \in 1..Len(body[k].names) :
           ItemOf(out.pi.imports_list[n], body[k], body[k].names[i].name)

AllExcludedWarned(body) ==
  \A k \in 1..Len(body) :
    IsExcluded(body[k]) => WarningsAt(body[k].lineno) = <<ExcludedWarning(body[k])>>

\* No line of the block has a '*' or imports from a module with a leading dot.
NoStarNoDot(ls) ==
  \A l \in 1..Len(ls) :
    /\ ~HasChar(ls[l], "*")
    /\ ~HasSub(ls[l], <<" ", ".">>)

\* C11: every relative or wildcard from-import gets exactly one warning with
\* its line number from process_imports, H304 if it is relative and H303
\* otherwise, and adds nothing to imports_list; no line of the new block
\* contains '*' or a module with a leading dot.
C11_ExcludedImports ==
  calls > 0 =>
    /\ AllExcludedWarned(ast_parse(before).body)
    /\ AllFromAbsolute(ast_parse(before).body)
    /\ NoStarNoDot(NewBlock)

HasExcludedBesideImport(body) ==
  \E j, k \in 1..Len(body) :
    /\ IsExcluded(body[j])
    /\ WarningsAt(body[j].lineno) # <<>>
    /\ IsAbsolute(body[k])

\* process_imports has warned about a relative or wildcard import of a file
\* and has put another import of the file into a block.
C11_ExcludedBesideImport ==
  /\ calls > 0
  /\ Len(NewBlock) = 2
  /\ HasExcludedBesideImport(ast_parse(before).body)

\* Position of the last dot of a dotted name.
LastDot(name) ==
  CHOOSE i \in 1..Len(name) :
    name[i] = "." /\ \A j \in (i + 1)..Len(name) : name[j] # "."

\* The dotted name without its last segment, and its last segment.
Parent(name) == SubSeq(name, 1, LastDot(name) - 1)
Leaf(name) == SubSeq(name, LastDot(name) + 1, Len(name))

\* The dotted name of a project package is classified project and emitted
\* as "from <parent> import <leaf>".
EmittedAsFromImport(name) ==
  /\ \E n \in 1..Len(out.pi.imports_list) :
       /\ ItemOf(out.pi.imports_list[n], ImportNode(0, <<>>), name)
       /\ out.pi.imports_list[n].category = "project"
  /\ \E l \in 1..Len(NewBlock) :
       NewBlock[l] = normalize_import(Parent(name), <<Leaf(name)>>)

AllDottedAsFromImport(body) ==
  \A k \in 1..Len(body) :
    body[k].type = "Import" =>
      \A i \in 1..Len(body[k].names) :
        (/\ HasChar(body[k].names[i].name, ".")
         /\ SplitHead(body[k].names[i].name, ".") \in project_pkgs \ stdlib)
          => EmittedAsFromImport(body[k].names[i].name)

\* C12 (as stated): every plain import of a dotted name whose first segment
\* is a project package is classified project and emitted as
\* "from <parent> import <leaf>", where <leaf> has no dot and <parent>.<leaf>
\* is the name, whatever the number of segments.
C12_DottedProjectImports ==
  calls > 0 => AllDottedAsFromImport(ast_parse(before).body)

IsFutureNode(node) == node.type = "ImportFrom" /\ node.module = s_future

\* Every name imported from __future__ has its line in the new block.
FuturePresent(body) ==
  \A k \in 1..Len(body) :
    IsFutureNode(body[k]) =>
      \A i \in 1..Len(body[k].names) :
        \E l \in 1..Len(NewBlock) :
          NewBlock[l] = normalize_import(s_future, <<body[k].names[i].name>>)

\* The __future__ lines stand before every other import line.
FutureFirst(ls) ==
  \A l, m \in 1..Len(ls) :
    (IsFutureLine(ls[l]) /\ ls[m] # <<>> /\ ~IsFutureLine(ls[m])) => l < m

\* C13: whenever the file holds from __future__ imports, the line of each
\* of them is in the block process_imports builds and precedes every other
\* import line of the block, whatever the categories.
C13_FutureFirst ==
  calls > 0 => FuturePresent(ast_parse(before).body) /\ FutureFirst(NewBlock)

\* A block has been built in which a __future__ line classified third_party
\* precedes a stdlib line.
C13_FutureBeforeStdlib ==
  /\ calls > 0
  /\ \E l, m \in 1..Len(NewBlock) :
       /\ l < m
       /\ IsFutureLine(NewBlock[l])
       /\ LineCategory(NewBlock[l]) = "third_party"
       /\ NewBlock[m] # <<>>
       /\ LineCategory(NewBlock[m]) = "stdlib"

\* The canonical line of an import that carries an alias.
AliasLine(node, alias) ==
  normalize_import(node.module, <<alias.name>>)
    \o <<" ">> \o kw_as \o <<" ">> \o alias.asname

AliasesKept(body) ==
  \A k \in 1..Len(body) :
    IsAbsolute(body[k]) =>
      \A i \in 1..Len(body[k].names) :
        body[k].names[i].asname # <<>> =>
          \E l \in 1..Len(NewBlock) :
            NewBlock[l] = AliasLine(body[k], body[k].names[i])

\* C14 (as stated): for every import that carries an alias, the line that
\* process_imports emits for it keeps the alias.
C14_AliasKept == calls > 0 => AliasesKept(ast_parse(before).body)

\* The one warning of a call that could not read or parse the file.
InputErrorWarnings(tree) ==
  IF fault = "read_fails" THEN <<<<0, CouldNotRead>>>>
  ELSE <<<<tree.lineno, SyntaxErrorMsg>>>>

InputErrorReturned(tree) ==
  (fault = "read_fails" \/ ~tree.ok) =>
    /\ out.path \in {"read_error", "syntax_error"}
    /\ ~out.modified
    /\ out.warnings = InputErrorWarnings(tree)
    /\ disk = before

\* C15: when the file cannot be read, or its source does not parse,
\* process_file raises nothing, returns modified=False with exactly one
\* warning, at line 0 for a read failure and at the line of the syntax error
\* for a parse failure, and leaves the file as it was, also with apply=True.
C15_InputErrorsAreValues == calls > 0 => InputErrorReturned(ast_parse(before))

\* A call with apply=True on a file whose source parses has failed to read
\* it and has returned the one warning at line 0.
C15_ReadFailureReturned ==
  /\ calls > 0
  /\ apply
  /\ fault = "read_fails"
  /\ ast_parse(before).ok
  /\ before # <<>>
  /\ out.warnings = <<<<0, CouldNotRead>>>>

\* The last call got as far as writing or reporting: the source parsed and
\* process_imports asked for a rewrite or returned warnings.
ReachedRewrite(tree) ==
  /\ fault # "read_fails"
  /\ tree.ok
  /\ (out.pi.modified \/ out.pi.warnings # <<>>)

WriteFailureReturned(tree) ==
  (fault \in WriteFaults /\ ReachedRewrite(tree)) =>
    /\ out.path = "write_error"
    /\ ~out.modified
    /\ out.warnings = Append(out.pi.warnings, <<0, CouldNotWrite>>)

\* C16: when apply=True and writing the file fails, process_file returns
\* modified=False and a warning list that ends with the warning reporting
\* the write failure, also when a rewrite of the import block had been
\* computed.
C16_WriteFailureNotSuccess ==
  calls > 0 => WriteFailureReturned(ast_parse(before))

\* A call with apply=True has computed a rewrite of the import block of the
\* file, has failed to write it and has returned modified=False.
C16_RewriteComputedWriteFailed ==
  /\ calls > 0
  /\ apply
  /\ fault \in WriteFaults
  /\ out.pi.modified
  /\ out.block.found
  /\ out.path = "write_error"
  /\ ~out.modified

\* C17: a call of process_file with apply=False leaves the content of the
\* file as it was before the call, whether the call ended with a read error,
\* a syntax error, no findings, warnings, modified=True, or an exception.
C17_ReportModeReadOnly == (calls > 0 /\ ~apply) => disk = before

\* A call with apply=False has returned modified=True for a file whose
\* import block a call with apply=True would rewrite to other lines.
C17_ReportedNotWritten ==
  /\ calls > 0
  /\ ~apply
  /\ fault = "ok"
  /\ out.path = "reported"
  /\ out.modified
  /\ out.pi.modified
  /\ out.block.found
  /\ join(NL, rewrite_imports(splitlines(before), out.block.start,
                              out.block.end, out.pi.new_lines)) \o NL # before
  /\ disk = before

\* The codes of the warnings of process_imports that carry the line number.
CodesAt(lineno) ==
  { out.pi.warnings[k][2].code :
      k \in { j \in 1..Len(out.pi.warnings) : out.pi.warnings[j][1] = lineno } }

HasStar(node) == \E i \in 1..Len(node.names) : node.names[i].name = STAR

\* The codes whose condition the from-import meets, each taken on its own.
CodesMet(node) ==
  (IF node.level > 0 THEN {"H304"} ELSE {})
    \cup (IF HasStar(node) THEN {"H303"} ELSE {})
    \cup (IF Len(node.names) > 1 THEN {"H301"} ELSE {})

\* The codes of the first condition the from-import meets, in the order
\* relative, wildcard, several names.
CodesOfFirstMet(node) ==
  IF node.level > 0 THEN {"H304"}
  ELSE IF HasStar(node) THEN {"H303"}
  ELSE IF Len(node.names) > 1 THEN {"H301", "H302"}
  ELSE {}

FirstMetDecides(body) ==
  \A k \in 1..Len(body) :
    body[k].type = "ImportFrom" =>
      CodesAt(body[k].lineno) = CodesOfFirstMet(body[k])

EveryCodeMetReported(body) ==
  \A k \in 1..Len(body) :
    body[k].type = "ImportFrom" =>
      CodesMet(body[k]) \subseteq CodesAt(body[k].lineno)

\* C20: a from-import receives the codes of the first condition it meets
\* and no other: a relative import only H304, also when it is a wildcard
\* import or imports several names, an absolute wildcard import only H303,
\* an absolute import of several names both H301 and H302.
C20_FirstConditionDecides == calls > 0 => FirstMetDecides(ast_parse(before).body)

\* C20 as stated: a from-import receives a warning for every code whose
\* condition it meets, a relative wildcard import both H303 and H304, a
\* relative import of several names both H301 and H304.
C20_EveryCodeReported ==
  calls > 0 => EveryCodeMetReported(ast_parse(before).body)

RelativeWildcardBesideSeveralNames(body) ==
  \E j, k \in 1..Len(body) :
    /\ body[j].type = "ImportFrom"
    /\ body[j].level > 0
    /\ HasStar(body[j])
    /\ CodesAt(body[j].lineno) = {"H304"}
    /\ body[k].type = "ImportFrom"
    /\ body[k].level = 0
    /\ Len(body[k].names) > 1
    /\ CodesAt(body[k].lineno) = {"H301", "H302"}

\* process_imports has visited a relative wildcard import, which received
\* H304 alone, and an absolute from-import of two names, which received H301
\* and H302.
C20_RelativeWildcardVisited ==
  /\ calls > 0
  /\ RelativeWildcardBesideSeveralNames(ast_parse(before).body)

(***************************************************************************)
(* Properties of the check and fix commands                                *)
(***************************************************************************)

\* The file ended with a file-level error: it could not be read, did not
\* parse, or process_file raised.
FileLevelError(res) == res.path \in {"read_error", "syntax_error", "raised"}

\* The worst severity over the processed files.
WorstSeverity(results) ==
  IF \E res \in results : FileLevelError(res) THEN 2
  ELSE IF \E res \in results : res.modified THEN 1
  ELSE 0

AllProcessed == { res.file : res \in run.results } = run.files

\* C18: when _handle_files returns, every enumerated file has been
\* processed and the exit code is 2 if a file could not be read, did not
\* parse or raised, otherwise 1 if a file was reported modified, otherwise 0.
C18_WorstSeverityReturned ==
  run.pc = "returned" =>
    (AllProcessed /\ run.exit_code = WorstSeverity(run.results))

\* C18, the part about the loop: every enumerated file is processed, also
\* after a file that raised.
C18_EveryFileProcessed == run.pc = "returned" => AllProcessed

\* C18, the part about the order: no step of a run lowers the exit code.
C18_ExitCodeNeverDecreases == [][run'.exit_code >= run.exit_code]_vars

\* The files iter_python_files is to yield: under a directory the regular
\* files at any depth whose name ends with ".py", for a single .py file the
\* file itself.
ExpectedFiles(fs, root) ==
  IF is_dir(fs, root)
    THEN { p \in DOMAIN fs :
             /\ IsUnder(p, root)
             /\ fs[p].kind = "file"
             /\ endswith(p[Len(p)], suffix_py) }
  ELSE IF endswith(root[Len(root)], suffix_py) THEN {root}
  ELSE {}

\* C19: the paths iter_python_files yields for the path of a command are,
\* for a directory, the .py files at any depth under it and nothing else,
\* and for a single .py file, that file.
C19_FilesEnumerated ==
  run.pc \in {"loop", "returned"} =>
    run.files = ExpectedFiles(run.fs, run.path)

(***************************************************************************)
(* Properties of the block location and of nested and multi-line statements *)
(***************************************************************************)

\* The lines of the span [start, end) are import lines and blank lines.
OnlyImportsAndBlanks(ls, b) ==
  \A i \in (b.start + 1)..b.end : LineKind(strip(ls[i])) # "other"

\* The span ends before the first non-blank non-import line after its start:
\* no import line follows the span with nothing but blank lines between.
EndsAtFirstOther(ls, b) ==
  \A j \in (b.end + 1)..Len(ls) :
    (\A k \in (b.end + 1)..j : LineKind(strip(ls[k])) # "other")
      => LineKind(strip(ls[j])) # "import"

\* Nothing but blank lines precedes the span.
NothingBefore(ls, b) ==
  \A i \in 1..b.start : LineKind(strip(ls[i])) = "blank"

PrefixScanned(ls, b) ==
  b.found =>
    /\ OnlyImportsAndBlanks(ls, b)
    /\ EndsAtFirstOther(ls, b)
    /\ NothingBefore(ls, b)

\* C23 (as stated): the span find_import_block returns for the lines of the
\* file holds only import lines and blank lines, ends before the first
\* non-blank non-import line that follows an import, and is preceded by no
\* non-blank non-import line: for an import after other statements no block
\* is reported.
C23_PrefixScan ==
  calls > 0 => PrefixScanned(BeforeLines, find_import_block(BeforeLines))

SpanScanned(ls, b) ==
  b.found => (OnlyImportsAndBlanks(ls, b) /\ EndsAtFirstOther(ls, b))

\* C23, the part about the span itself: it holds only import lines and blank
\* lines and ends before the first non-blank non-import line after its start.
C23_SpanOfImportLines ==
  calls > 0 => SpanScanned(BeforeLines, find_import_block(BeforeLines))

ByLine(warnings) ==
  \A i, j \in 1..Len(warnings) : i < j => warnings[i][1] <= warnings[j][1]

\* C21 (as stated): the line numbers of the warnings process_imports returns
\* never decrease along the list, also for a file with an import nested in
\* a function.
C21_WarningsByLine == calls > 0 => ByLine(out.pi.warnings)

\* C21, for the list process_file returns.
C21_ReturnedWarningsByLine == calls > 0 => ByLine(out.warnings)

\* The line was emitted for a name of an import statement of the module body.
IsLineOfBody(line, body) ==
  \E k \in 1..Len(body) :
    /\ body[k].type \in {"Import", "ImportFrom"}
    /\ \E i \in 1..Len(body[k].names) :
         line \in LinesFor(body[k], body[k].names[i].name)

OnlyLinesOfBody(ls, body) ==
  \A l \in 1..Len(ls) : IsLineOfBody(ls[l], body)

\* C22 (as stated): every import line of the block process_imports builds
\* was emitted for an import statement that is a direct child of the module
\* body; an import nested in a function adds no line.
C22_OnlyTopLevelImports ==
  calls > 0 => OnlyLinesOfBody(EmittedLines, ast_parse(before).body)

\* The lines rewrite_imports is applied to when the docstrings were changed.
DocstringFixedLines(ds) == splitlines(ds.new_source)

SameBlockLines(ds, b) ==
  SubSeq(DocstringFixedLines(ds), b.start + 1, b.end)
    = SubSeq(BeforeLines, b.start + 1, b.end)

\* C24 (as stated): when process_file with apply=True has changed a docstring
\* and replaces the import block as well, the lines [start, end) of the
\* lines with the changed docstring are the lines [start, end) of the
\* original lines, in which find_import_block located the block.
C24_BlockIndicesMatch ==
  (Rewritten /\ out.docstring_modified) =>
    SameBlockLines(process_docstrings(before), out.block)

\* Every import statement of the module body that begins in the span ends in
\* it.
WholeStatements(body, b) ==
  \A k \in 1..Len(body) :
    (/\ body[k].type \in {"Import", "ImportFrom"}
     /\ body[k].lineno > b.start
     /\ body[k].lineno <= b.end) => body[k].end_lineno <= b.end

\* C25 (as stated): every physical line of every top-level import statement
\* whose first line lies in the span find_import_block returns lies in the
\* span, also the continuation lines of an import in parentheses or after a
\* backslash.
C25_WholeStatementsInBlock ==
  (calls > 0 /\ find_import_block(BeforeLines).found) =>
    WholeStatements(ast_parse(before).body, find_import_block(BeforeLines))

=============================================================================
